---- MODULE Spec2Model ----
(***************************************************************************)
(* Model of the animation-curve compatibility helpers of                    *)
(*   src/xplane_utils/xplane_anim_compat.py      (module "compat")          *)
(*   src/xplane_utils/xplane_anim_compat_bak.py  (module "bak")             *)
(*                                                                          *)
(* The host (Blender) owns the object graph: one Action with an optional    *)
(* flat curve collection and named groups (legacy attributes), a list of    *)
(* slots each resolvable to a channel bag, and a layer/strip/channel-bag    *)
(* nesting.  The helpers only probe that graph.  Python's None is the       *)
(* value NoneR, an exception that reaches the caller is outcome "raised".   *)
(***************************************************************************)
EXTENDS Integers, Sequences, FiniteSets, TLC

VARIABLES helper, legacy, fcurves, groups, slots, bags, layers,
          last, newCalls, looked, groups0

vars == <<helper, legacy, fcurves, groups, slots, bags, layers,
          last, newCalls, looked, groups0>>

host == <<helper, legacy, fcurves, groups, slots, bags, layers>>

----------------------------------------------------------------------------
(* Bounds of the model. *)

\* Longest flat collection / channel bag drawn initially.
MaxCurves == 2
\* Most slots of the Action the resolvers work on.
MaxSlots == 1
\* Most slots of the Action that is enumerated.
MaxIterSlots == 2
\* Distinct group names callers ask for.
MaxNames == 1
\* Most leaves (curves, or childless layers/strips/channel bags) of the
\* layer nesting drawn for the layered enumeration.
MaxLeaves == 3
\* Most leaves of the layer nesting where the three shapes are mixed.
MaxMixLeaves == 1

Names == 1..MaxNames
Modules == {"compat", "bak"}

----------------------------------------------------------------------------
(* Values handed back to callers. *)

Res(kind, id, items) == [kind |-> kind, id |-> id, items |-> items]
NoneR == Res("none", 0, <<>>)
ActionR == Res("action", 0, <<>>)
BagR(s) == Res("bag", s, <<>>)
GroupR(n) == Res("group", n, <<>>)
ListR(items) == Res("list", 0, items)
BoolR(b) == Res(IF b THEN "true" ELSE "false", 0, <<>>)

\* What one call did: how it ended, what it gave back, the curves it yielded,
\* the host entry points it invoked in order, and the host graph it left.
Ret(outcome, result, yielded, calls, b, g, f) ==
  [outcome |-> outcome, result |-> result, yielded |-> yielded,
   calls |-> calls, container |-> NoneR, bags |-> b, groups |-> g, fcurves |-> f]

\* One invocation of a host entry point and how it ended.
E(fn, res) == [fn |-> fn, res |-> res]

Returned(result, calls) == Ret("returned", result, <<>>, calls, bags, groups, fcurves)

\* The anim_data argument: None, a handle with no action, or a handle of the
\* Action with its active slot (0: no active slot).
AnimDatas ==
  {[kind |-> "none", slot |-> 0], [kind |-> "noaction", slot |-> 0]}
    \cup {[kind |-> "ok", slot |-> s] : s \in 0..Len(slots)}

----------------------------------------------------------------------------
(* Host collections. A collection attribute is absent or a sequence. *)

Absent == [present |-> FALSE, items |-> <<>>]
Coll(s) == [present |-> TRUE, items |-> s]

\* Python truthiness of getattr(obj, name, None) for a collection.
Truthy(c) == c.present /\ c.items # <<>>

NoBag == [present |-> FALSE, fcurves |-> <<>>]
Bag(cs) == [present |-> TRUE, fcurves |-> cs]

\* Identity of the curve at a position of the layer nesting.
PathId(l, s, b, c) == 1000 * l + 100 * s + 10 * b + c

\* Identity of the i-th curve a slot's channel bag held initially.
BagCurve(s, i) == 10 * s + i

Tag(shape, cs) == [i \in 1..Len(cs) |-> [shape |-> shape, fc |-> cs[i]]]

RECURSIVE ForestExact(_, _)
RECURSIVE NodeExact(_, _)
\* The nodes of a level (1 layer, 2 strip, 3 channel bag, 4 curve) with
\* exactly w leaves: each is the collection of its children.
NodeExact(level, w) ==
  IF level = 4 THEN (IF w = 1 THEN {0} ELSE {})
  ELSE (IF w = 1 THEN {Absent, Coll(<<>>)} ELSE {})
       \cup {Coll(cs) : cs \in ForestExact(level + 1, w)}

ForestExact(level, w) ==
  IF w = 0 THEN {}
  ELSE UNION { UNION { { <<t>> \o rest :
                          rest \in (IF w = k THEN {<<>>} ELSE ForestExact(level, w - k)) }
                       : t \in NodeExact(level, k) } : k \in 1..w }

\* Every value of action.layers with at most n leaves.
LayerTrees(n) ==
  {Absent, Coll(<<>>)} \cup UNION { {Coll(cs) : cs \in ForestExact(1, w)} : w \in 1..n }

----------------------------------------------------------------------------
(* Host entry points, as the call sites use them. *)

\* hasattr(action, "fcurves"): the Action of Blender <= 4.5 carries the flat
\* collection and the groups together; the Action of 5.0 carries neither.
HasAttrFcurves == legacy

\* hasattr(container, "groups"): only the legacy Action has named groups.
HasAttrGroups(container) == container.kind = "action" /\ legacy

\* anim_utils.action_get_channelbag_for_slot(action, slot): the slot's bag,
\* or None when the slot has none (slot 0 is None).
ActionGetChannelbagForSlot(s) ==
  IF s # 0 /\ bags[s].present THEN BagR(s) ELSE NoneR

----------------------------------------------------------------------------
(* iter_action_fcurves *)

RECURSIVE Flat(_)
Flat(ss) == IF ss = <<>> THEN <<>> ELSE Head(ss) \o Flat(Tail(ss))

\* for fc in fcurves: yield fc   (skipped when cb.fcurves is absent or empty)
BagCurves(l, s, b, cb) ==
  IF ~Truthy(cb) THEN <<>>
  ELSE [c \in 1..Len(cb.items) |-> PathId(l, s, b, c)]

\* for cb in channelbags: ...    (skipped when strip.channelbags is absent or empty)
StripCurves(l, s, strip) ==
  IF ~Truthy(strip) THEN <<>>
  ELSE Flat([b \in 1..Len(strip.items) |-> BagCurves(l, s, b, strip.items[b])])

\* A loop over the strips that ends at the first strip without channel bags.
LayerCurvesBreak(l, layer) ==
  IF ~Truthy(layer) THEN <<>>
  ELSE LET n == Len(layer.items)
           stop == IF \E s \in 1..n : ~Truthy(layer.items[s])
                   THEN (CHOOSE s \in 1..n : /\ ~Truthy(layer.items[s])
                                             /\ \A t \in 1..(s - 1) : Truthy(layer.items[t])) - 1
                   ELSE n
       IN Flat([s \in 1..stop |-> StripCurves(l, s, layer.items[s])])

\* for strip in strips: ...      (skipped when layer.strips is absent or empty)
LayerCurves(l, layer) ==
  IF ~Truthy(layer) THEN <<>>
  ELSE Flat([s \in 1..Len(layer.items) |-> StripCurves(l, s, layer.items[s])])

\* The layered part: layers = getattr(action, "layers", None); nothing when it
\* is absent or empty, else layer -> strip -> channel bag -> curve.
IterLayered ==
  IF ~Truthy(layers) THEN <<>>
  ELSE Tag("layered", Flat([l \in 1..Len(layers.items) |-> LayerCurves(l, layers.items[l])]))

\* The legacy part, inside its try: the curves yielded before the host raises
\* at step ff of the enumeration (0: the host does not raise).
FlatYield(ff) ==
  [out |-> Tag("legacy", IF ff = 0 THEN fcurves ELSE SubSeq(fcurves, 1, ff - 1)),
   raised |-> ff # 0,
   calls |-> <<E("fcurves", IF ff = 0 THEN "ok" ELSE "Error")>>]

FlatFaults == 0..(Len(fcurves) + 1)

RECURSIVE SlotLoop(_, _)
\* The slotted part of the bak module, inside its try: for each slot resolve
\* its bag and yield its curves; the helper is missing (helper = 0, the
\* import or the attribute access raises) or its hf-th call raises.
SlotLoop(i, hf) ==
  IF i > Len(slots) THEN [out |-> <<>>, raised |-> FALSE, calls |-> <<>>]
  ELSE IF helper = 0 THEN [out |-> <<>>, raised |-> TRUE, calls |-> <<>>]
  ELSE IF hf = i
       THEN [out |-> <<>>, raised |-> TRUE, calls |-> <<E("get_helper", "Error")>>]
       ELSE LET cb == bags[slots[i]]
                ys == IF cb.present /\ cb.fcurves # <<>>
                      THEN Tag("slotted", cb.fcurves) ELSE <<>>
                rest == SlotLoop(i + 1, hf)
            IN [out |-> ys \o rest.out, raised |-> rest.raised,
                calls |-> <<E("get_helper", "ok")>> \o rest.calls]

Yielded(ys, calls) == Ret("returned", NoneR, ys, calls, bags, groups, fcurves)

\* The legacy part, then the layered part when there is no flat collection
\* or its enumeration raised.
LegacyThenLayered(ff) ==
  IF HasAttrFcurves
  THEN LET f == FlatYield(ff)
       IN [out |-> IF f.raised THEN f.out \o IterLayered ELSE f.out, calls |-> f.calls]
  ELSE [out |-> IterLayered, calls |-> <<>>]

\* iter_action_fcurves of the compat module: legacy, else layered.
IterCompat(ff) ==
  LET r == LegacyThenLayered(ff) IN Yielded(r.out, r.calls)

\* iter_action_fcurves of the bak module: slotted, else legacy, else layered.
IterBak(hf, ff) ==
  LET r == LegacyThenLayered(ff)
  IN IF slots # <<>>
     THEN LET sl == SlotLoop(1, hf)
          IN IF sl.raised THEN Yielded(sl.out \o r.out, sl.calls \o r.calls)
             ELSE Yielded(sl.out, sl.calls)
     ELSE Yielded(r.out, r.calls)

IterActionFcurves(mod, hf, ff) ==
  IF mod = "compat" THEN IterCompat(ff) ELSE IterBak(hf, ff)

----------------------------------------------------------------------------
(* get_action_channelbag *)

\* The faults of one call: the ordinals of its helper calls that raise.
HelperFaults == SUBSET {1, 2}

\* bpy_extras.anim_utils.action_ensure_channelbag_for_slot(action, slot,
\* ensure=ensure): the slot's bag; the host allocates it when it is missing
\* and ensure is set.
ActionEnsureChannelbagForSlot(s, ensure) ==
  IF s = 0 THEN [result |-> NoneR, bags |-> bags]
  ELSE IF bags[s].present THEN [result |-> BagR(s), bags |-> bags]
  ELSE IF ensure THEN [result |-> BagR(s), bags |-> [bags EXCEPT ![s] = Bag(<<>>)]]
  ELSE [result |-> NoneR, bags |-> bags]

\* The helper called with ensure set whatever the caller passed.
EnsureCallAlways(s, ensure, calls) ==
  LET e == ActionEnsureChannelbagForSlot(s, TRUE)
  IN Ret("returned", e.result, <<>>, calls, e.bags, groups, fcurves)

\* return action_ensure_channelbag_for_slot(action, slot, ensure=ensure)
EnsureCall(s, ensure, calls) ==
  LET e == ActionEnsureChannelbagForSlot(s, ensure)
  IN Ret("returned", e.result, <<>>, calls, e.bags, groups, fcurves)

\* compat: the legacy Action itself, else the ensure helper on the active slot.
ChannelbagCompat(ad, ensure, hf) ==
  IF ad.kind # "ok" THEN Returned(NoneR, <<>>)
  ELSE IF HasAttrGroups(ActionR) THEN Returned(ActionR, <<>>)
  ELSE IF helper < 2 THEN Returned(NoneR, <<>>)
  ELSE IF 1 \in hf THEN Returned(NoneR, <<E("ensure_helper", "Error")>>)
  ELSE EnsureCall(ad.slot, ensure, <<E("ensure_helper", "ok")>>)

\* bak: the bag of the active slot (else of the first slot) through the
\* ensure helper, else through the get helper; the legacy Action only when
\* there is no slot or the helpers raise.
ChannelbagBak(ad, ensure, hf) ==
  IF ad.kind # "ok" THEN Returned(NoneR, <<>>)
  ELSE LET slot == IF ad.slot = 0 /\ slots # <<>> THEN slots[1] ELSE ad.slot
           Fallback(calls) == Returned(IF HasAttrGroups(ActionR) THEN ActionR ELSE NoneR, calls)
       IN IF slot = 0 THEN Fallback(<<>>)
          ELSE IF helper = 2 /\ 1 \notin hf
               THEN EnsureCall(slot, ensure, <<E("ensure_helper", "ok")>>)
          ELSE LET before == IF helper = 2 THEN <<E("ensure_helper", "Error")>> ELSE <<>>
               IN IF helper = 0 THEN Fallback(before)
                  ELSE IF (Len(before) + 1) \in hf
                       THEN Fallback(before \o <<E("get_helper", "Error")>>)
                  ELSE Returned(ActionGetChannelbagForSlot(slot),
                                before \o <<E("get_helper", "ok")>>)

GetActionChannelbag(mod, ad, ensure, hf) ==
  IF mod = "compat" THEN ChannelbagCompat(ad, ensure, hf) ELSE ChannelbagBak(ad, ensure, hf)

----------------------------------------------------------------------------
(* ensure_action_group *)

\* A lookup that is skipped: the group is created on every call.
GroupsGetOrNewAlways(name, c) ==
  [Ret("returned", GroupR(name), <<>>, c.calls \o <<E("groups.new", "ok")>>,
       c.bags, [groups EXCEPT ![name] = @ + 1], fcurves)
     EXCEPT !.container = c.result]

\* container.groups.get(group_name) or container.groups.new(group_name)
GroupsGetOrNew(name, c) ==
  [(IF groups[name] > 0
    THEN Ret("returned", GroupR(name), <<>>, c.calls \o <<E("groups.get", "ok")>>,
             c.bags, groups, fcurves)
    ELSE Ret("returned", GroupR(name), <<>>,
             c.calls \o <<E("groups.get", "ok"), E("groups.new", "ok")>>,
             c.bags, [groups EXCEPT ![name] = @ + 1], fcurves))
     EXCEPT !.container = c.result]

\* What follows the hasattr(container, "groups") test when it fails: compat
\* returns None, bak reads container.groups, which raises AttributeError.
NoGroupsAttr(mod, c) ==
  [Ret(IF mod = "compat" THEN "returned" ELSE "raised", NoneR, <<>>, c.calls,
       c.bags, groups, fcurves)
     EXCEPT !.container = c.result]

EnsureActionGroup(mod, ad, name, hf) ==
  IF ad.kind # "ok" THEN Returned(NoneR, <<>>)
  ELSE LET c == GetActionChannelbag(mod, ad, TRUE, hf)
       IN IF c.result = NoneR THEN c
          ELSE IF HasAttrGroups(c.result) THEN GroupsGetOrNew(name, c)
          ELSE NoGroupsAttr(mod, c)

----------------------------------------------------------------------------
(* get_channelbag_for_anim_data, get_fcurves_for_anim_data *)

GetChannelbagForAnimData(ad, hf) ==
  IF ad.kind # "ok" THEN Returned(NoneR, <<>>)
  ELSE IF helper = 0 \/ ad.slot = 0 THEN Returned(NoneR, <<>>)
  ELSE IF 1 \in hf THEN Returned(NoneR, <<E("get_helper", "Error")>>)
  ELSE Returned(ActionGetChannelbagForSlot(ad.slot), <<E("get_helper", "ok")>>)

\* The legacy fallback, outside the try: list(action.fcurves), where the host
\* raises (fr) or not.
LegacyList(fr, calls) ==
  IF ~HasAttrFcurves THEN Returned(ListR(<<>>), calls)
  ELSE IF fr THEN Ret("raised", NoneR, <<>>, calls, bags, groups, fcurves)
  ELSE Returned(ListR(fcurves), calls)

GetFcurvesForAnimData(ad, hf, fr) ==
  IF ad.kind # "ok" THEN Returned(ListR(<<>>), <<>>)
  ELSE LET slot == IF ad.slot = 0 /\ slots # <<>> THEN slots[1] ELSE ad.slot
       IN IF slot = 0 \/ helper = 0 THEN LegacyList(fr, <<>>)
          ELSE IF 1 \in hf THEN LegacyList(fr, <<E("get_helper", "Error")>>)
          ELSE IF bags[slot].present
               THEN Returned(ListR(bags[slot].fcurves), <<E("get_helper", "ok")>>)
          ELSE LegacyList(fr, <<E("get_helper", "ok")>>)

----------------------------------------------------------------------------
(* remove_fcurve_from_collection *)

\* How the host's remove answers one calling convention.
HostAnswers == {"ok", "TypeError", "Error"}

Without(cs, c) == SelectSeq(cs, LAMBDA x : x # c)

\* The host graph after fcurves.remove succeeded on the collection.
Removed(coll, curve, res, calls) ==
  IF coll.kind = "bag"
  THEN Ret("returned", res, <<>>, calls,
           [bags EXCEPT ![coll.id].fcurves = Without(@, curve)], groups, fcurves)
  ELSE Ret("returned", res, <<>>, calls, bags, groups, Without(fcurves, curve))

\* The positional retry made after every failure of the keyword call.
RemoveRetryAlways(coll, curve, kw, pos) ==
  IF coll = NoneR \/ curve = 0 THEN Returned(BoolR(FALSE), <<>>)
  ELSE IF kw = "ok" THEN Removed(coll, curve, BoolR(TRUE), <<E("remove_kw", kw)>>)
  ELSE IF pos = "ok"
       THEN Removed(coll, curve, BoolR(TRUE), <<E("remove_kw", kw), E("remove_pos", pos)>>)
       ELSE Returned(BoolR(FALSE), <<E("remove_kw", kw), E("remove_pos", pos)>>)

\* The result of the positional retry dropped: False after it succeeded.
RemoveRetryFalse(coll, curve, kw, pos) ==
  IF coll = NoneR \/ curve = 0 THEN Returned(BoolR(FALSE), <<>>)
  ELSE IF kw = "ok" THEN Removed(coll, curve, BoolR(TRUE), <<E("remove_kw", kw)>>)
  ELSE IF kw = "TypeError"
       THEN IF pos = "ok"
            THEN Removed(coll, curve, BoolR(FALSE),
                         <<E("remove_kw", kw), E("remove_pos", pos)>>)
            ELSE Returned(BoolR(FALSE), <<E("remove_kw", kw), E("remove_pos", pos)>>)
  ELSE Returned(BoolR(FALSE), <<E("remove_kw", kw)>>)

RemoveFcurveFromCollection(coll, curve, kw, pos) ==
  IF coll = NoneR \/ curve = 0 THEN Returned(BoolR(FALSE), <<>>)
  ELSE IF kw = "ok" THEN Removed(coll, curve, BoolR(TRUE), <<E("remove_kw", kw)>>)
  ELSE IF kw = "TypeError"
       THEN IF pos = "ok"
            THEN Removed(coll, curve, BoolR(TRUE),
                         <<E("remove_kw", kw), E("remove_pos", pos)>>)
            ELSE Returned(BoolR(FALSE), <<E("remove_kw", kw), E("remove_pos", pos)>>)
  ELSE Returned(BoolR(FALSE), <<E("remove_kw", kw)>>)

----------------------------------------------------------------------------
(* The call record. *)

Call(op, mod, ad, ensure, name, r) ==
  [op |-> op, mod |-> mod, ad |-> ad, ensure |-> ensure, name |-> name,
   coll |-> NoneR, curve |-> 0,
   outcome |-> r.outcome, result |-> r.result, yielded |-> r.yielded,
   calls |-> r.calls, container |-> r.container]

NoAd == [kind |-> "none", slot |-> 0]
NoCall == Call("init", "both", NoAd, FALSE, 0, Returned(NoneR, <<>>))

Ids(n) == [i \in 1..n |-> i]

\* A slot's bag holding k curves.
BagOf(s, k) == Bag([i \in 1..k |-> BagCurve(s, i)])

\* The slot bags of a host with n of m slots: none past the last slot, each
\* other one missing or holding one of the given numbers of curves.
BagSets(n, m, sizes) ==
  {b \in [1..m -> {NoBag} \cup {BagOf(s, k) : s \in 1..m, k \in sizes}] :
     \A s \in 1..m :
        /\ s > n => b[s] = NoBag
        /\ b[s].present => b[s] = BagOf(s, Len(b[s].fcurves))}

InitHistory ==
  /\ last = NoCall
  /\ newCalls = [n \in Names |-> 0]
  /\ looked = [n \in Names |-> FALSE]

NoGroups ==
  /\ groups0 = [n \in Names |-> FALSE]
  /\ groups = [n \in Names |-> 0]

Effect(r) ==
  /\ bags' = r.bags
  /\ groups' = r.groups
  /\ fcurves' = r.fcurves
  /\ UNCHANGED <<helper, legacy, slots, layers, groups0>>

Count(calls, fn) == Cardinality({i \in 1..Len(calls) : calls[i].fn = fn})

----------------------------------------------------------------------------
(* The enumeration: one Action of any mix of the three shapes. *)

InitIter ==
  /\ helper \in 0..1
  /\ legacy \in BOOLEAN
  /\ fcurves \in IF legacy THEN {Ids(k) : k \in 0..MaxCurves} ELSE {<<>>}
  /\ NoGroups
  /\ \E n \in 0..MaxIterSlots :
        slots = Ids(n) /\ bags \in BagSets(n, MaxIterSlots, 0..MaxCurves)
  /\ layers \in LayerTrees(MaxMixLeaves)
  /\ InitHistory

IterCall ==
  /\ \E mod \in Modules, hf \in 0..Len(slots), ff \in FlatFaults :
        last' = Call("iter_action_fcurves", mod, NoAd, FALSE, 0,
                     IterActionFcurves(mod, hf, ff))
  /\ UNCHANGED <<host, newCalls, looked, groups0>>

NextIter == IterCall

SpecIter == InitIter /\ [][NextIter]_vars

\* The layered enumeration: every layer nesting of up to MaxLeaves leaves, on
\* an Action with a slot or none, with the slot helper or without, and on a
\* legacy Action.
InitLayered ==
  /\ helper \in 0..1
  /\ legacy \in BOOLEAN
  /\ fcurves = IF legacy THEN Ids(1) ELSE <<>>
  /\ NoGroups
  /\ \E n \in 0..1 :
        /\ slots = Ids(n)
        /\ bags = [s \in 1..MaxIterSlots |-> IF s <= n THEN BagOf(s, 1) ELSE NoBag]
  /\ legacy => helper = 0 /\ slots = <<>>
  /\ layers \in LayerTrees(MaxLeaves)
  /\ InitHistory

NextLayered == IterCall

SpecLayered == InitLayered /\ [][NextLayered]_vars

----------------------------------------------------------------------------
(* The removal: a flat collection and one slot's bag. *)

InitRemove ==
  /\ helper = 0
  /\ legacy = TRUE
  /\ fcurves \in {Ids(k) : k \in 0..MaxCurves}
  /\ NoGroups
  /\ slots = Ids(1)
  /\ bags \in BagSets(1, MaxSlots, 0..MaxCurves)
  /\ layers = Absent
  /\ InitHistory

\* The collections a caller can hand to remove, and the curves.
Collections ==
  {NoneR} \cup (IF legacy THEN {ActionR} ELSE {})
          \cup {BagR(s) : s \in {t \in DOMAIN bags : bags[t].present}}

Items(coll) ==
  IF coll.kind = "bag" THEN bags[coll.id].fcurves
  ELSE IF coll.kind = "action" THEN fcurves ELSE <<>>

Curves(coll) == (0..MaxCurves) \cup {Items(coll)[i] : i \in 1..Len(Items(coll))}

RemoveCall ==
  /\ \E coll \in Collections, kw \in HostAnswers, pos \in HostAnswers :
       \E curve \in Curves(coll) :
          LET r == RemoveFcurveFromCollection(coll, curve, kw, pos)
          IN /\ last' = [Call("remove_fcurve_from_collection", "both", NoAd, FALSE, 0, r)
                           EXCEPT !.coll = coll, !.curve = curve]
             /\ Effect(r)
  /\ UNCHANGED <<newCalls, looked>>

NextRemove == RemoveCall

SpecRemove == InitRemove /\ [][NextRemove]_vars

----------------------------------------------------------------------------
(* The resolvers, on one host across calls. *)

Init ==
  /\ helper \in 0..2
  /\ legacy \in BOOLEAN
  /\ fcurves = IF legacy THEN Ids(MaxCurves) ELSE <<>>
  /\ groups0 \in IF legacy THEN [Names -> BOOLEAN] ELSE {[n \in Names |-> FALSE]}
  /\ groups = [n \in Names |-> IF groups0[n] THEN 1 ELSE 0]
  /\ \E n \in 0..MaxSlots : slots = Ids(n) /\ bags \in BagSets(n, MaxSlots, {MaxCurves})
  /\ layers = Absent
  /\ InitHistory

ChannelbagCall ==
  /\ \E mod \in Modules, ad \in AnimDatas, ensure \in BOOLEAN, hf \in HelperFaults :
        LET r == GetActionChannelbag(mod, ad, ensure, hf)
        IN last' = Call("get_action_channelbag", mod, ad, ensure, 0, r) /\ Effect(r)
  /\ UNCHANGED <<newCalls, looked>>

EnsureGroupCall ==
  \E mod \in Modules, ad \in AnimDatas, name \in Names, hf \in HelperFaults :
     LET r == EnsureActionGroup(mod, ad, name, hf)
     IN /\ last' = Call("ensure_action_group", mod, ad, TRUE, name, r)
        /\ Effect(r)
        /\ newCalls' = [newCalls EXCEPT ![name] = @ + Count(r.calls, "groups.new")]
        /\ looked' = [looked EXCEPT ![name] = @ \/ r.result.kind = "group"]

ChannelbagForAnimDataCall ==
  /\ \E ad \in AnimDatas, hf \in HelperFaults :
        LET r == GetChannelbagForAnimData(ad, hf)
        IN last' = Call("get_channelbag_for_anim_data", "both", ad, FALSE, 0, r) /\ Effect(r)
  /\ UNCHANGED <<newCalls, looked>>

FcurvesForAnimDataCall ==
  /\ \E ad \in AnimDatas, hf \in HelperFaults, fr \in BOOLEAN :
        LET r == GetFcurvesForAnimData(ad, hf, fr)
        IN last' = Call("get_fcurves_for_anim_data", "both", ad, FALSE, 0, r) /\ Effect(r)
  /\ UNCHANGED <<newCalls, looked>>

Next ==
  \/ ChannelbagCall
  \/ EnsureGroupCall
  \/ ChannelbagForAnimDataCall
  \/ FcurvesForAnimDataCall

Spec == Init /\ [][Next]_vars

----------------------------------------------------------------------------
(* Properties. *)

IsIter == last.op = "iter_action_fcurves"
IsRemove == last.op = "remove_fcurve_from_collection"
IsChannelbag == last.op = "get_action_channelbag"
IsEnsureGroup == last.op = "ensure_action_group"

Shapes(ys) == {ys[i].shape : i \in 1..Len(ys)}

\* The host exposes the per-slot helper and the Action has slots.
SlottedApplies == helper >= 1 /\ slots # <<>>

\* The curves of the slots' bags, slot after slot.
SlottedCurves == Flat([i \in 1..Len(slots) |-> bags[slots[i]].fcurves])

\* The curves of the layer nesting, as a set of positions.
LayeredCurveSet ==
  UNION { UNION { UNION { { PathId(l, s, b, c) :
      c \in 1..Len(layers.items[l].items[s].items[b].items) }
      : b \in 1..Len(layers.items[l].items[s].items) }
      : s \in 1..Len(layers.items[l].items) }
      : l \in 1..Len(layers.items) }

RECURSIVE SortedSeq(_)
SortedSeq(S) ==
  IF S = {} THEN <<>>
  ELSE LET m == CHOOSE x \in S : \A y \in S : x <= y
       IN <<m>> \o SortedSeq(S \ {m})

NoHostError(calls) == \A i \in 1..Len(calls) : calls[i].res = "ok"

\* C1: in every call of iter_action_fcurves the yielded curves all come from
\* one shape (slotted, legacy or layered), also when the host raises
\* part-way through an enumeration.
C1_OneShapePerCall == IsIter => Cardinality(Shapes(last.yielded)) <= 1

\* C2: no operation lets an exception reach its caller, whatever the host
\* does.
C2_NothingRaises == last.outcome = "returned"

\* C3: get_action_channelbag returns the Action itself, consulting no slot
\* helper, when the Action exposes the flat legacy attribute; otherwise, when
\* the slot helpers are available, the bag of the active slot, or of the first
\* slot when no slot is active; with no helper at all, None.  (Calls in which
\* a helper raises are left aside, and so is a host with only one of the two
\* helpers.)
C3_ProbeOrder ==
  (IsChannelbag /\ last.ad.kind = "ok" /\ NoHostError(last.calls))
    => IF HasAttrGroups(ActionR) THEN last.result = ActionR /\ last.calls = <<>>
       ELSE IF helper = 2
            THEN LET s == IF last.ad.slot # 0 THEN last.ad.slot
                          ELSE IF slots # <<>> THEN slots[1] ELSE 0
                 IN last.result = ActionGetChannelbagForSlot(s)
       ELSE helper = 0 => last.result = NoneR

\* C4: iter_action_fcurves prefers slotted, then legacy, then layered: with
\* the helper and at least one slot the result is the bags' curves in slot
\* order; else with the flat collection it is that collection; else the
\* layered flattening.  (Calls in which the host raises are left aside.)
C4_ShapeOrder ==
  (IsIter /\ NoHostError(last.calls)) => last.yielded =
              IF SlottedApplies THEN Tag("slotted", SlottedCurves)
              ELSE IF HasAttrFcurves THEN Tag("legacy", fcurves)
              ELSE Tag("layered", SortedSeq(LayeredCurveSet))

\* The Action is matched by the layered shape: neither the slotted nor the
\* legacy shape applies.
LayeredMatched == ~SlottedApplies /\ ~HasAttrFcurves

\* C5: for an Action matched by the layered shape iter_action_fcurves yields
\* exactly the curves of the nesting in the order layer, strip, channel bag,
\* curve, each once; absent or empty children contribute nothing and do not
\* end the enumeration.
C5_LayeredFlatten ==
  (IsIter /\ LayeredMatched)
    => /\ last.outcome = "returned"
       /\ last.yielded = Tag("layered", SortedSeq(LayeredCurveSet))

\* A layered Action whose first layer has an empty first strip and a later
\* strip with curves, and whose enumeration yielded them.
C5_Witness ==
  /\ IsIter /\ LayeredMatched
  /\ Truthy(layers)
  /\ Len(layers.items[1].items) >= 2
  /\ ~Truthy(layers.items[1].items[1])
  /\ last.yielded # <<>>

Succeeded(calls) == \E i \in 1..Len(calls) : calls[i].res = "ok"

\* C6: remove_fcurve_from_collection always returns a boolean and never
\* raises: True exactly when one of the remove calls it made (keyword, then
\* positional) succeeded, False when they failed, and False without any call
\* when the collection or the curve is None.
C6_RemoveResult ==
  IsRemove
    => /\ last.outcome = "returned"
       /\ last.result \in {BoolR(TRUE), BoolR(FALSE)}
       /\ last.result = BoolR(TRUE) <=> Succeeded(last.calls)
       /\ (last.coll = NoneR \/ last.curve = 0)
            => last.result = BoolR(FALSE) /\ last.calls = <<>>

\* The keyword call failed on its parameters and the positional call removed
\* the curve.
C6_Witness ==
  /\ IsRemove /\ last.result = BoolR(TRUE)
  /\ Len(last.calls) = 2 /\ last.calls[2].res = "ok"

\* C7: within one call the keyword convention is tried first; the positional
\* one at most once and only after the keyword call failed with TypeError; so
\* remove is invoked at most twice and succeeds at most once.
C7_RemoveAttempts ==
  IsRemove
    => /\ Len(last.calls) <= 2
       /\ last.calls # <<>> => last.calls[1].fn = "remove_kw"
       /\ Len(last.calls) = 2
            => last.calls[2].fn = "remove_pos" /\ last.calls[1].res = "TypeError"
       /\ Cardinality({i \in 1..Len(last.calls) : last.calls[i].res = "ok"}) <= 1

\* The keyword call failed for another reason than its parameters and the
\* call ended there.
C7_Witness ==
  /\ IsRemove /\ Len(last.calls) = 1 /\ last.calls[1].res = "Error"
  /\ last.result = BoolR(FALSE)

\* C8: on a legacy container ensure_action_group is an idempotent
\* lookup-or-create: once a call has resolved a name there, the container
\* holds one group of that name, groups.new was invoked once if the group was
\* missing at first and never otherwise, and every call returns that group.
C8_GroupCreatedOnce ==
  /\ \A n \in Names :
        /\ groups[n] <= 1
        /\ looked[n] => /\ groups[n] = 1
                        /\ newCalls[n] = IF groups0[n] THEN 0 ELSE 1
  /\ (IsEnsureGroup /\ HasAttrGroups(last.container))
        => last.outcome = "returned" /\ last.result = GroupR(last.name)

\* A later call that found the group an earlier call created.
C8_Witness ==
  /\ IsEnsureGroup /\ HasAttrGroups(last.container)
  /\ newCalls[last.name] = 1
  /\ Count(last.calls, "groups.new") = 0

\* C9: ensure_action_group returns None, without raising and without a group
\* lookup or creation, when the resolved container is a channel bag without
\* groups.
C9_ModernBagNone ==
  (IsEnsureGroup /\ last.container.kind = "bag")
    => /\ last.outcome = "returned"
       /\ last.result = NoneR
       /\ Count(last.calls, "groups.get") + Count(last.calls, "groups.new") = 0

NoActionAd(c) == c.ad.kind \in {"none", "noaction"}

HostSame == bags' = bags /\ groups' = groups /\ fcurves' = fcurves

\* C10: get_action_channelbag changes the host graph only when ensure is set
\* and a slot helper is consulted: with ensure unset, on the legacy path, and
\* with no anim_data or no action the host is left as it was; an existing bag
\* is returned as it is; and every resolver returns None or an empty list,
\* calling nothing, for no anim_data or no action.
C10_Frame ==
  [][ /\ (last'.op = "get_action_channelbag"
            /\ (~last'.ensure \/ last'.calls = <<>> \/ last'.result.kind = "action"
                  \/ NoActionAd(last')))
        => HostSame
      /\ (last'.op = "get_action_channelbag" /\ last'.result.kind = "bag"
            /\ bags[last'.result.id].present)
        => HostSame
      /\ (last'.op \in {"get_action_channelbag", "ensure_action_group",
                        "get_channelbag_for_anim_data", "get_fcurves_for_anim_data"}
            /\ NoActionAd(last'))
        => /\ HostSame
           /\ last'.outcome = "returned"
           /\ last'.calls = <<>>
           /\ last'.result = IF last'.op = "get_fcurves_for_anim_data"
                             THEN ListR(<<>>) ELSE NoneR
    ]_vars

\* A call with ensure unset that reached the slot helper and found no bag.
C10_Witness ==
  /\ IsChannelbag /\ ~last.ensure /\ last.calls # <<>>
  /\ last.ad.slot # 0 /\ ~bags[last.ad.slot].present
  /\ last.result = NoneR

====
